---- MODULE Spec2Model ----
(***************************************************************************)
(* Model of kdbus buffer.c: the receiver-buffer slot allocator             *)
(* (kdbus_buffer_alloc / kdbus_buffer_free) and the page-range pin with    *)
(* its windowed copy (kdbus_buffer_map_open / _write / _close).            *)
(***************************************************************************)
EXTENDS Integers, Naturals, Sequences, FiniteSets, TLC

(* ------------------------------------------------------------------ *)
(* Bounds of the model (scaled-down machine)                            *)
(* ------------------------------------------------------------------ *)
\* width of size_t / unsigned long in bits
WordBits == 5
\* buf->size of the receiver buffer under test
BufSize == 16
\* buf->buf, the (non-null) user address of the receiver buffer
BufBase == 8
\* largest number of slots outstanding at once
MaxSlots == 3
\* scaled page size
PAGE_SIZE == 4
\* pages of the receiver's address space
MaxPages == 3
\* longest transfer
MaxXfer == 6
\* threads that call the allocator on the same buffer
NThreads == 2
\* lengths up to MaxLen, and the MaxLen largest lengths of the word, are
\* requested from the allocator
MaxLen == 3

WordMod == 2 ^ WordBits

(* ------------------------------------------------------------------ *)
(* Program constants                                                    *)
(* ------------------------------------------------------------------ *)
NULL == 0
ENOMEM == 12
EFAULT == 14
ESHUTDOWN == 108

\* byte i (from 0) of the sender's message
SenderByte(i) == i + 1

\* content of a destination byte nothing was stored to: no byte of the
\* message has this value, and it is not the zero byte
Unwritten == SenderByte(MaxXfer)

\* the byte copy_from_user pads with
ZeroByte == 0

Min(a, b) == IF a < b THEN a ELSE b
Max(a, b) == IF a < b THEN b ELSE a

\* the pages and the byte addresses of the receiver's address space
Pages == 0 .. MaxPages - 1
Addrs == 0 .. MaxPages * PAGE_SIZE - 1

(* ------------------------------------------------------------------ *)
(* State                                                                *)
(* ------------------------------------------------------------------ *)
VARIABLES
  buf,      \* struct kdbus_buffer: [buf, size, pos, users]
  slots,    \* outstanding slots in allocation order: [msg, off, len];
            \* tracked as long as every release named an outstanding slot
  misuse,   \* a non-null handle that names no outstanding slot was released
  bug,      \* BUG_ON fired: the kernel thread is dead
  last,     \* the last allocator call: [op, arg, ret]
  map,      \* struct kdbus_buffer_map: [pages, n, cur, pos]
  xfer,     \* the transfer: [to, len, ok]; the sender's message is len
            \* bytes long and readable up to byte ok
  pc,       \* position of the transfer: idle, the steps of a running
            \* open (open_kmalloc .. open_short), opened/loop/faulted/
            \* failed/closed, crashed when the kernel stopped
  open,     \* locals of kdbus_buffer_map_open: [n, base, have], and what
            \* the call holds: mm (reference on the memory space), sem
            \* (mm->mmap_sem taken for reading)
  openret,  \* return value of kdbus_buffer_map_open
  res,      \* kernel resources of the transfer: [list, pins, gets, puts,
            \* kfrees]: state of the kmalloc'ed page list, pins held per
            \* page, get_user_pages / put_page calls per page, kfree calls
  mem,      \* the receiver's memory, byte per address
  wr,       \* the running write call: [from, len, ret, start, total]
  chunks,   \* the copies the running write call has made:
            \* [cur, pos, bytes, copied]
  written,  \* bytes the finished write calls have put into the range
  reclosed, \* the caller closed a map whose open had failed
  lock,     \* holder of the mutex the callers take around the allocator
            \* (conn->lock), NoThread when it is free
  thr       \* per thread: position in its allocator call and the call's
            \* locals: [pc, len, pos, msg]

allocVars == <<buf, slots, misuse, bug, last>>
mapVars ==
  <<map, xfer, pc, open, openret, res, mem, wr, chunks, written, reclosed>>
lockVars == <<lock, thr>>
vars == <<buf, slots, misuse, bug, last, map, xfer, pc, open, openret, res,
          mem, wr, chunks, written, reclosed, lock, thr>>

(* ------------------------------------------------------------------ *)
(* Slot allocator                                                       *)
(* ------------------------------------------------------------------ *)
\* KDBUS_ALIGN8(val): (((val) + 7) & ~7) in size_t arithmetic
KDBUS_ALIGN8(val) ==
  LET s == (val + 7) % WordMod IN s - (s % 8)

\* kdbus_buffer_alloc that takes the cursor as it is, without aligning it
kdbus_buffer_alloc_noalign(b, len) ==
  LET pos == b.pos IN
    IF (pos + len) % WordMod > b.size
    THEN [buf |-> b, ret |-> NULL, off |-> pos]
    ELSE [buf |-> [b EXCEPT !.pos = (pos + len) % WordMod,
                            !.users = b.users + 1],
          ret |-> b.buf + pos,
          off |-> pos]

\* kdbus_buffer_alloc that counts a user also when it returns NULL
kdbus_buffer_alloc_countfail(b, len) ==
  LET pos == KDBUS_ALIGN8(b.pos) IN
    IF (pos + len) % WordMod > b.size
    THEN [buf |-> [b EXCEPT !.users = b.users + 1], ret |-> NULL, off |-> pos]
    ELSE [buf |-> [b EXCEPT !.pos = (pos + len) % WordMod,
                            !.users = b.users + 1],
          ret |-> b.buf + pos,
          off |-> pos]

\* kdbus_buffer_alloc with the bounds check made on the unaligned cursor
kdbus_buffer_alloc_unaligned(b, len) ==
  LET pos == KDBUS_ALIGN8(b.pos) IN
    IF (b.pos + len) % WordMod > b.size
    THEN [buf |-> b, ret |-> NULL, off |-> pos]
    ELSE [buf |-> [b EXCEPT !.pos = (pos + len) % WordMod,
                            !.users = b.users + 1],
          ret |-> b.buf + pos,
          off |-> pos]

\* kdbus_buffer_alloc: result is the new buffer, the returned pointer and
\* the offset of the slot
kdbus_buffer_alloc(b, len) ==
  LET pos == KDBUS_ALIGN8(b.pos) IN
    IF (pos + len) % WordMod > b.size
    THEN [buf |-> b, ret |-> NULL, off |-> pos]
    ELSE [buf |-> [b EXCEPT !.pos = (pos + len) % WordMod,
                            !.users = b.users + 1],
          ret |-> b.buf + pos,
          off |-> pos]

\* kdbus_buffer_free with the assertion compiled out
kdbus_buffer_free_nobug(b, msg) ==
  IF msg = NULL THEN [buf |-> b, bug |-> FALSE]
  ELSE IF b.users - 1 = 0
       THEN [buf |-> [b EXCEPT !.users = 0, !.pos = 0], bug |-> FALSE]
       ELSE [buf |-> [b EXCEPT !.users = b.users - 1], bug |-> FALSE]

\* kdbus_buffer_free: result is the new buffer and whether BUG_ON fired
kdbus_buffer_free(b, msg) ==
  IF msg = NULL THEN [buf |-> b, bug |-> FALSE]
  ELSE IF b.users = 0 THEN [buf |-> b, bug |-> TRUE]
  ELSE IF b.users - 1 = 0
       THEN [buf |-> [b EXCEPT !.users = 0, !.pos = 0], bug |-> FALSE]
       ELSE [buf |-> [b EXCEPT !.users = b.users - 1], bug |-> FALSE]

\* the sequence s without its i-th element
RemoveAt(s, i) == SubSeq(s, 1, i - 1) \o SubSeq(s, i + 1, Len(s))

\* the pointers a caller may hand to kdbus_buffer_free: null, or the address
\* of an 8-aligned offset of the buffer
Handles == {NULL} \cup {BufBase + o : o \in {x \in 0 .. BufSize : x % 8 = 0}}

\* the lengths requested: short ones, those around the size of the buffer,
\* and the largest ones a size_t holds
Lens ==
  (0 .. MaxLen) \cup {BufSize - 1, BufSize, BufSize + 1}
    \cup (WordMod - MaxLen .. WordMod - 1)

\* a sender calls kdbus_buffer_alloc(buf, len)
Alloc ==
  /\ ~bug
  /\ buf.users < MaxSlots
  /\ \E len \in Lens :
       LET r == kdbus_buffer_alloc(buf, len) IN
         /\ buf' = r.buf
         /\ slots' = IF r.ret = NULL \/ misuse THEN slots
                     ELSE Append(slots, [msg |-> r.ret, off |-> r.off,
                                         len |-> len])
         /\ last' = [op |-> "alloc", arg |-> len, ret |-> r.ret]
  /\ UNCHANGED <<misuse, bug>>

\* the receiver calls kdbus_buffer_free(buf, msg) on an outstanding slot
\* or on the null pointer
Free ==
  /\ ~bug
  /\ \E msg \in Handles :
       /\ \/ msg = NULL /\ slots' = slots
          \/ \E i \in 1 .. Len(slots) :
               slots[i].msg = msg /\ slots' = RemoveAt(slots, i)
       /\ LET r == kdbus_buffer_free(buf, msg) IN
            /\ buf' = r.buf
            /\ bug' = r.bug
            /\ last' = [op |-> "free", arg |-> msg, ret |-> NULL]
  /\ UNCHANGED misuse

\* a caller releases a pointer that names no outstanding slot (a second
\* release of a slot, or a pointer that was never returned)
FreeStale ==
  /\ ~bug
  /\ \E msg \in Handles \ {NULL} :
       /\ \A i \in 1 .. Len(slots) : slots[i].msg # msg
       /\ LET r == kdbus_buffer_free(buf, msg) IN
            /\ buf' = r.buf
            /\ bug' = r.bug
            /\ last' = [op |-> "free", arg |-> msg, ret |-> NULL]
  /\ misuse' = TRUE
  /\ slots' = <<>>

(* ------------------------------------------------------------------ *)
(* Page-range pin                                                       *)
(* ------------------------------------------------------------------ *)
\* a list entry that is the address of no page
NotAPage == -1

\* put_page on pages[i .. n] of the list; an entry that is no page changes
\* the count of no page
RECURSIVE PutPages(_, _, _, _)
PutPages(r, pages, i, n) ==
  IF i > n THEN r
  ELSE PutPages(IF pages[i] \in Pages
                THEN [r EXCEPT !.pins[pages[i]] = @ - 1,
                               !.puts[pages[i]] = @ + 1]
                ELSE r,
                pages, i + 1, n)

\* kdbus_buffer_map_close that leaves the last page of the list pinned
kdbus_buffer_map_close_short(m, r) ==
  [PutPages(r, m.pages, 1, m.n - 1) EXCEPT
     !.kfrees = IF r.list = "none" THEN @ ELSE @ + 1,
     !.list = IF r.list = "none" THEN "none" ELSE "freed"]

\* kdbus_buffer_map_close: put_page on each of the n pages, then kfree of
\* the list (kfree(NULL) does nothing)
kdbus_buffer_map_close(m, r) ==
  [PutPages(r, m.pages, 1, m.n) EXCEPT
     !.kfrees = IF r.list = "none" THEN @ ELSE @ + 1,
     !.list = IF r.list = "none" THEN "none" ELSE "freed"]

\* number of pages involved in the range [addr, addr + len), as
\* kdbus_buffer_map_open computes it in unsigned long arithmetic
PagesInvolved(addr, len) ==
  ((((addr + len - 1) % WordMod) \div PAGE_SIZE) - (addr \div PAGE_SIZE) + 1)
    % WordMod

\* get_user_pages(task, mm, base, n, ...) that pinned `have` pages: the
\* pages from base on are pinned once more and entered in the list
get_user_pages(r, base, have) ==
  LET first == base \div PAGE_SIZE
      got == first .. first + have - 1
  IN [res |-> [r EXCEPT
                 !.pins = [p \in Pages |-> IF p \in got THEN @[p] + 1
                                           ELSE @[p]],
                 !.gets = [p \in Pages |-> IF p \in got THEN @[p] + 1
                                           ELSE @[p]]],
      pages |-> [i \in 1 .. have |-> first + i - 1]]

\* the values get_user_pages can return when asked for n pages: an error,
\* or the number of pages it pinned
GetUserPagesRet(n) == {-EFAULT, -ENOMEM} \cup (0 .. n)

\* memset(map, 0, ...)
MapZero == [pages |-> <<>>, n |-> 0, cur |-> 0, pos |-> 0]

\* the locals of kdbus_buffer_map_open outside a call: no reference on the
\* memory space, mmap_sem not held
OpenIdle == [n |-> 0, base |-> 0, have |-> 0, mm |-> FALSE, sem |-> FALSE]

\* end of kdbus_buffer_map_open that accepts a short pin of at least one
\* page
kdbus_buffer_map_open_partial(m, n, r) ==
  IF m.n < 1
  THEN [res |-> kdbus_buffer_map_close(m, r), ret |-> -EFAULT]
  ELSE [res |-> r, ret |-> 0]

\* end of kdbus_buffer_map_open that returns -EFAULT on a short pin without
\* closing
kdbus_buffer_map_open_leak(m, n, r) ==
  IF m.n < n
  THEN [res |-> r, ret |-> -EFAULT]
  ELSE [res |-> r, ret |-> 0]

\* end of kdbus_buffer_map_open, map->n stored: if (map->n < n) close the
\* map and return -EFAULT, else return 0
kdbus_buffer_map_open_short(m, n, r) ==
  IF m.n < n
  THEN [res |-> kdbus_buffer_map_close(m, r), ret |-> -EFAULT]
  ELSE [res |-> r, ret |-> 0]

(* ------------------------------------------------------------------ *)
(* Windowed copy                                                        *)
(* ------------------------------------------------------------------ *)
\* copy_from_user(to, from, n): copies the bytes of [from, from + n) that
\* are readable (those below ok), pads the destination with zero bytes up
\* to the n bytes asked for, and returns the number of bytes it could not
\* copy
copy_from_user(memory, to, from, n, ok) ==
  LET k == Min(n, Max(ok - from, 0))
  IN [mem |-> [a \in DOMAIN memory |->
                 IF to <= a /\ a < to + k THEN SenderByte(from + (a - to))
                 ELSE IF to + k <= a /\ a < to + n THEN ZeroByte
                 ELSE memory[a]],
      left |-> n - k]

\* the chunk taken as a whole page whatever the position in the page
ChunkBytesWholePage(pagesize, pos, len) == Min(pagesize, len)

\* bytes = min(PAGE_SIZE - map->pos, len)
ChunkBytes(pagesize, pos, len) == Min(pagesize - pos, len)

\* one pass of the loop that moves the position past the bytes copied
\* before the fault
kdbus_buffer_map_write_iter_advfault(m, w, memory, ok) ==
  LET bytes == ChunkBytes(PAGE_SIZE, m.pos, w.len)
      addr == m.pages[m.cur + 1] * PAGE_SIZE + m.pos
      c == copy_from_user(memory, addr, w.from, bytes, ok)
      chunk == [cur |-> m.cur, pos |-> m.pos, bytes |-> bytes,
                copied |-> bytes - c.left]
  IN IF c.left # 0
     THEN [map |-> [m EXCEPT !.pos = m.pos + (bytes - c.left)],
           wr |-> [w EXCEPT !.ret = -EFAULT], mem |-> c.mem,
           chunk |-> chunk]
     ELSE [map |-> IF m.pos + bytes = PAGE_SIZE
                   THEN [m EXCEPT !.pos = 0, !.cur = m.cur + 1]
                   ELSE [m EXCEPT !.pos = m.pos + bytes],
           wr |-> [w EXCEPT !.len = w.len - bytes],
           mem |-> c.mem,
           chunk |-> chunk]

\* one pass of the loop that never moves on to the next page
kdbus_buffer_map_write_iter_nowrap(m, w, memory, ok) ==
  LET bytes == ChunkBytes(PAGE_SIZE, m.pos, w.len)
      addr == m.pages[m.cur + 1] * PAGE_SIZE + m.pos
      c == copy_from_user(memory, addr, w.from, bytes, ok)
      chunk == [cur |-> m.cur, pos |-> m.pos, bytes |-> bytes,
                copied |-> bytes - c.left]
  IN IF c.left # 0
     THEN [map |-> m, wr |-> [w EXCEPT !.ret = -EFAULT], mem |-> c.mem,
           chunk |-> chunk]
     ELSE [map |-> [m EXCEPT !.pos = m.pos + bytes],
           wr |-> [w EXCEPT !.len = w.len - bytes],
           mem |-> c.mem,
           chunk |-> chunk]

\* one pass of the loop that leaves the remaining length as it is
kdbus_buffer_map_write_iter_nodec(m, w, memory, ok) ==
  LET bytes == ChunkBytes(PAGE_SIZE, m.pos, w.len)
      addr == m.pages[m.cur + 1] * PAGE_SIZE + m.pos
      c == copy_from_user(memory, addr, w.from, bytes, ok)
      chunk == [cur |-> m.cur, pos |-> m.pos, bytes |-> bytes,
                copied |-> bytes - c.left]
  IN IF c.left # 0
     THEN [map |-> m, wr |-> [w EXCEPT !.ret = -EFAULT], mem |-> c.mem,
           chunk |-> chunk]
     ELSE [map |-> IF m.pos + bytes = PAGE_SIZE
                   THEN [m EXCEPT !.pos = 0, !.cur = m.cur + 1]
                   ELSE [m EXCEPT !.pos = m.pos + bytes],
           wr |-> w,
           mem |-> c.mem,
           chunk |-> chunk]

\* one pass of the loop of kdbus_buffer_map_write: result is the map, the
\* call's variables, the receiver's memory and the copy made
kdbus_buffer_map_write_iter(m, w, memory, ok) ==
  LET bytes == ChunkBytes(PAGE_SIZE, m.pos, w.len)
      \* kmap(map->pages[map->cur]) + map->pos
      addr == m.pages[m.cur + 1] * PAGE_SIZE + m.pos
      c == copy_from_user(memory, addr, w.from, bytes, ok)
      chunk == [cur |-> m.cur, pos |-> m.pos, bytes |-> bytes,
                copied |-> bytes - c.left]
  IN IF c.left # 0
     THEN [map |-> m, wr |-> [w EXCEPT !.ret = -EFAULT], mem |-> c.mem,
           chunk |-> chunk]
     ELSE [map |-> IF m.pos + bytes = PAGE_SIZE
                   THEN [m EXCEPT !.pos = 0, !.cur = m.cur + 1]
                   ELSE [m EXCEPT !.pos = m.pos + bytes],
           wr |-> [w EXCEPT !.len = w.len - bytes],
           mem |-> c.mem,
           chunk |-> chunk]

\* the sizes of the copies the loop of kdbus_buffer_map_write makes for len
\* bytes from position pos of a page, no copy faulting
RECURSIVE ChunkSizes(_, _, _)
ChunkSizes(pagesize, pos, len) ==
  IF len <= 0 THEN <<>>
  ELSE LET bytes == ChunkBytes(pagesize, pos, len)
       IN <<bytes>> \o ChunkSizes(pagesize,
                                  IF pos + bytes = pagesize THEN 0
                                  ELSE pos + bytes,
                                  len - bytes)

(* ------------------------------------------------------------------ *)
(* One transfer: open, writes, close                                    *)
(* ------------------------------------------------------------------ *)
\* the positions inside a running kdbus_buffer_map_open
OpenSteps ==
  {"open_kmalloc", "open_mm", "open_down", "open_pin", "open_up",
   "open_mmput", "open_have", "open_short"}

\* the sender calls kdbus_buffer_map_open on [to, to + len) of the
\* receiver's memory: memset of the map, n = number of pages involved
Open ==
  /\ pc = "idle"
  /\ \E to \in Addrs, len \in 1 .. MaxXfer, ok \in 0 .. MaxXfer :
       /\ to + len - 1 \in Addrs
       /\ ok <= len
       /\ xfer' = [to |-> to, len |-> len, ok |-> ok]
       /\ open' = [OpenIdle EXCEPT !.n = PagesInvolved(to, len)]
  /\ map' = MapZero
  /\ pc' = "open_kmalloc"
  /\ UNCHANGED <<openret, res, mem, wr, chunks, written, reclosed>>

\* map->pages = kmalloc(...) (may sleep); if (!map->pages) return -ENOMEM;
\* base = addr & PAGE_MASK; map->pos = addr - base
OpenKmalloc ==
  /\ pc = "open_kmalloc"
  /\ \/ /\ openret' = -ENOMEM
        /\ pc' = "failed"
        /\ UNCHANGED <<map, res, open>>
     \/ /\ res' = [res EXCEPT !.list = "live"]
        /\ LET base == xfer.to - (xfer.to % PAGE_SIZE) IN
             /\ open' = [open EXCEPT !.base = base]
             /\ map' = [map EXCEPT !.pos = xfer.to - base]
        /\ pc' = "open_mm"
        /\ UNCHANGED openret
  /\ UNCHANGED <<xfer, mem, wr, chunks, written, reclosed>>

\* mm = get_task_mm(task); if (!mm) close the map and return -ESHUTDOWN
OpenGetTaskMm ==
  /\ pc = "open_mm"
  /\ \/ /\ res' = kdbus_buffer_map_close(map, res)
        /\ openret' = -ESHUTDOWN
        /\ pc' = "failed"
        /\ UNCHANGED open
     \/ /\ open' = [open EXCEPT !.mm = TRUE]
        /\ pc' = "open_down"
        /\ UNCHANGED <<res, openret>>
  /\ UNCHANGED <<map, xfer, mem, wr, chunks, written, reclosed>>

\* down_read(&mm->mmap_sem) (waits for the semaphore)
OpenDownRead ==
  /\ pc = "open_down"
  /\ open' = [open EXCEPT !.sem = TRUE]
  /\ pc' = "open_pin"
  /\ UNCHANGED <<map, xfer, openret, res, mem, wr, chunks, written, reclosed>>

\* have = get_user_pages(task, mm, base, n, ..., map->pages, NULL) (may
\* sleep): the pages it pinned are entered in the list
OpenGetUserPages ==
  /\ pc = "open_pin"
  /\ \E have \in GetUserPagesRet(open.n) :
       LET g == get_user_pages(res, open.base, have) IN
         /\ res' = g.res
         /\ map' = [map EXCEPT !.pages = g.pages]
         /\ open' = [open EXCEPT !.have = have]
  /\ pc' = "open_up"
  /\ UNCHANGED <<xfer, openret, mem, wr, chunks, written, reclosed>>

\* up_read(&mm->mmap_sem): the semaphore is released, the reference on
\* the memory space still held
OpenUpRead ==
  /\ pc = "open_up"
  /\ open' = [open EXCEPT !.sem = FALSE]
  /\ pc' = "open_mmput"
  /\ UNCHANGED <<map, xfer, openret, res, mem, wr, chunks, written, reclosed>>

\* mmput(mm) (may sleep): the reference on the memory space is dropped
OpenMmput ==
  /\ pc = "open_mmput"
  /\ open' = [open EXCEPT !.mm = FALSE]
  /\ pc' = "open_have"
  /\ UNCHANGED <<map, xfer, openret, res, mem, wr, chunks, written, reclosed>>

\* if (have < 0) close the map and return have; map->n = have
OpenHave ==
  /\ pc = "open_have"
  /\ IF open.have < 0
     THEN /\ res' = kdbus_buffer_map_close(map, res)
          /\ openret' = open.have
          /\ pc' = "failed"
          /\ UNCHANGED map
     ELSE /\ map' = [map EXCEPT !.n = open.have]
          /\ pc' = "open_short"
          /\ UNCHANGED <<res, openret>>
  /\ UNCHANGED <<xfer, open, mem, wr, chunks, written, reclosed>>

\* if (map->n < n) close the map and return -EFAULT; return 0
OpenShort ==
  /\ pc = "open_short"
  /\ LET o == kdbus_buffer_map_open_short(map, open.n, res) IN
       /\ res' = o.res
       /\ openret' = o.ret
       /\ pc' = IF o.ret = 0 THEN "opened" ELSE "failed"
  /\ UNCHANGED <<map, xfer, open, mem, wr, chunks, written, reclosed>>

\* the sender calls kdbus_buffer_map_write(map, from, len) for the next
\* len bytes of its message
WriteCall ==
  /\ pc = "opened"
  /\ \E len \in 1 .. MaxXfer :
       /\ written + len <= xfer.len
       /\ wr' = [from |-> written, len |-> len, ret |-> 0,
                 start |-> map.cur * PAGE_SIZE + map.pos, total |-> len]
  /\ chunks' = <<>>
  /\ pc' = "loop"
  /\ UNCHANGED <<open, map, xfer, openret, res, mem, written, reclosed>>

\* one pass of the while loop
WriteIter ==
  /\ pc = "loop"
  /\ wr.len > 0
  /\ wr.ret = 0
  /\ LET i == kdbus_buffer_map_write_iter(map, wr, mem, xfer.ok) IN
       /\ map' = i.map
       /\ wr' = i.wr
       /\ mem' = i.mem
       /\ chunks' = Append(chunks, i.chunk)
  /\ UNCHANGED <<open, xfer, pc, openret, res, written, reclosed>>

\* the loop is left and kdbus_buffer_map_write returns ret
WriteReturn ==
  /\ pc = "loop"
  /\ wr.len = 0 \/ wr.ret < 0
  /\ pc' = IF wr.ret = 0 THEN "opened" ELSE "faulted"
  /\ written' = written + (wr.total - wr.len)
  /\ UNCHANGED <<open, map, xfer, openret, res, mem, wr, chunks, reclosed>>

\* the sender closes the map after its writes, or after the write that
\* failed
Close ==
  /\ pc \in {"opened", "faulted"}
  /\ res' = kdbus_buffer_map_close(map, res)
  /\ pc' = "closed"
  /\ UNCHANGED <<open, map, xfer, openret, mem, wr, chunks, written, reclosed>>

\* the sender closes the map although the open failed.  After a failed
\* kmalloc the list is NULL and n is 0: nothing is put, kfree(NULL) does
\* nothing.  After a later failure the open has freed the list already:
\* the n entries read are whatever the freed memory holds, pages or not,
\* and the kernel may stop at any of the put_page calls or at the second
\* kfree of the list
CloseFailed ==
  /\ pc = "failed"
  /\ \/ /\ res.list = "none"
        /\ res' = kdbus_buffer_map_close(map, res)
        /\ pc' = "closed"
     \/ /\ res.list = "freed"
        /\ \E stale \in [1 .. map.n -> Pages \cup {NotAPage}] :
             \/ /\ res' = kdbus_buffer_map_close(
                            [map EXCEPT !.pages = stale], res)
                /\ pc' = "closed"
             \/ /\ \E k \in 0 .. map.n : res' = PutPages(res, stale, 1, k)
                /\ pc' = "crashed"
  /\ reclosed' = TRUE
  /\ UNCHANGED <<map, xfer, open, openret, mem, wr, chunks, written>>

(* ------------------------------------------------------------------ *)
(* Several threads on one buffer, each call under the external mutex    *)
(* ------------------------------------------------------------------ *)
Threads == 1 .. NThreads
NoThread == 0

\* a thread outside the allocator
ThreadIdle == [pc |-> "idle", len |-> 0, pos |-> 0, msg |-> NULL]

\* thread t takes the mutex and calls kdbus_buffer_alloc(buf, len)
LockAlloc(t) ==
  /\ ~bug
  /\ thr[t].pc = "idle"
  /\ lock = NoThread
  /\ buf.users < MaxSlots
  /\ \E len \in Lens :
       thr' = [thr EXCEPT ![t] = [@ EXCEPT !.pc = "alloc_check", !.len = len]]
  /\ lock' = t
  /\ UNCHANGED <<buf, slots, bug>>

\* pos = KDBUS_ALIGN8(buf->pos); if (pos + len > buf->size) return NULL
AllocCheck(t) ==
  /\ thr[t].pc = "alloc_check"
  /\ LET pos == KDBUS_ALIGN8(buf.pos) IN
       thr' = [thr EXCEPT ![t] =
                 IF (pos + thr[t].len) % WordMod > buf.size
                 THEN [@ EXCEPT !.pc = "unlock", !.pos = pos, !.msg = NULL]
                 ELSE [@ EXCEPT !.pc = "alloc_pos", !.pos = pos]]
  /\ UNCHANGED <<buf, slots, bug, lock>>

\* buf->pos = pos + len
AllocSetPos(t) ==
  /\ thr[t].pc = "alloc_pos"
  /\ buf' = [buf EXCEPT !.pos = (thr[t].pos + thr[t].len) % WordMod]
  /\ thr' = [thr EXCEPT ![t] = [@ EXCEPT !.pc = "alloc_users"]]
  /\ UNCHANGED <<slots, bug, lock>>

\* buf->users++; return buf->buf + pos
AllocIncUsers(t) ==
  /\ thr[t].pc = "alloc_users"
  /\ buf' = [buf EXCEPT !.users = buf.users + 1]
  /\ slots' = Append(slots, [msg |-> buf.buf + thr[t].pos,
                             off |-> thr[t].pos, len |-> thr[t].len])
  /\ thr' = [thr EXCEPT ![t] =
               [@ EXCEPT !.pc = "unlock", !.msg = buf.buf + thr[t].pos]]
  /\ UNCHANGED <<bug, lock>>

\* thread t takes the mutex and calls kdbus_buffer_free(buf, msg) on a
\* slot it consumed, or on the null pointer
LockFree(t) ==
  /\ ~bug
  /\ thr[t].pc = "idle"
  /\ lock = NoThread
  /\ \/ /\ thr' = [thr EXCEPT ![t] =
                     [@ EXCEPT !.pc = "free_check", !.msg = NULL]]
        /\ slots' = slots
     \/ \E i \in 1 .. Len(slots) :
          /\ thr' = [thr EXCEPT ![t] =
                       [@ EXCEPT !.pc = "free_check", !.msg = slots[i].msg]]
          /\ slots' = RemoveAt(slots, i)
  /\ lock' = t
  /\ UNCHANGED <<buf, bug>>

\* if (!msg) return; BUG_ON(buf->users == 0)
FreeCheck(t) ==
  /\ thr[t].pc = "free_check"
  /\ IF thr[t].msg = NULL
     THEN thr' = [thr EXCEPT ![t] = [@ EXCEPT !.pc = "unlock"]] /\ bug' = bug
     ELSE IF buf.users = 0
     THEN thr' = [thr EXCEPT ![t] = [@ EXCEPT !.pc = "dead"]] /\ bug' = TRUE
     ELSE thr' = [thr EXCEPT ![t] = [@ EXCEPT !.pc = "free_dec"]] /\ bug' = bug
  /\ UNCHANGED <<buf, slots, lock>>

\* if (--buf->users == 0)
FreeDec(t) ==
  /\ thr[t].pc = "free_dec"
  /\ buf' = [buf EXCEPT !.users = buf.users - 1]
  /\ thr' = [thr EXCEPT ![t] =
               [@ EXCEPT !.pc = IF buf.users - 1 = 0 THEN "free_reset"
                                ELSE "unlock"]]
  /\ UNCHANGED <<slots, bug, lock>>

\* buf->pos = 0
FreeReset(t) ==
  /\ thr[t].pc = "free_reset"
  /\ buf' = [buf EXCEPT !.pos = 0]
  /\ thr' = [thr EXCEPT ![t] = [@ EXCEPT !.pc = "unlock"]]
  /\ UNCHANGED <<slots, bug, lock>>

\* the call has returned: thread t releases the mutex
Unlock(t) ==
  /\ thr[t].pc = "unlock"
  /\ lock = t
  /\ lock' = NoThread
  /\ thr' = [thr EXCEPT ![t] = ThreadIdle]
  /\ UNCHANGED <<buf, slots, bug>>

LockedNext ==
  \/ \E t \in Threads : LockAlloc(t) /\ UNCHANGED <<misuse, last, mapVars>>
  \/ \E t \in Threads : AllocCheck(t) /\ UNCHANGED <<misuse, last, mapVars>>
  \/ \E t \in Threads : AllocSetPos(t) /\ UNCHANGED <<misuse, last, mapVars>>
  \/ \E t \in Threads : AllocIncUsers(t) /\ UNCHANGED <<misuse, last, mapVars>>
  \/ \E t \in Threads : LockFree(t) /\ UNCHANGED <<misuse, last, mapVars>>
  \/ \E t \in Threads : FreeCheck(t) /\ UNCHANGED <<misuse, last, mapVars>>
  \/ \E t \in Threads : FreeDec(t) /\ UNCHANGED <<misuse, last, mapVars>>
  \/ \E t \in Threads : FreeReset(t) /\ UNCHANGED <<misuse, last, mapVars>>
  \/ \E t \in Threads : Unlock(t) /\ UNCHANGED <<misuse, last, mapVars>>

AllocInit ==
  /\ buf = [buf |-> BufBase, size |-> BufSize, pos |-> 0, users |-> 0]
  /\ slots = <<>>
  /\ misuse = FALSE
  /\ bug = FALSE
  /\ last = [op |-> "none", arg |-> 0, ret |-> NULL]

MapIdle ==
  /\ map = [pages |-> <<>>, n |-> 0, cur |-> 0, pos |-> 0]
  /\ xfer = [to |-> 0, len |-> 0, ok |-> 0]
  /\ pc = "idle"
  /\ open = OpenIdle
  /\ openret = 0
  /\ res = [list |-> "none",
            pins |-> [p \in Pages |-> 0],
            gets |-> [p \in Pages |-> 0],
            puts |-> [p \in Pages |-> 0],
            kfrees |-> 0]
  /\ mem = [a \in Addrs |-> Unwritten]
  /\ wr = [from |-> 0, len |-> 0, ret |-> 0, start |-> 0, total |-> 0]
  /\ chunks = <<>>
  /\ written = 0
  /\ reclosed = FALSE

LockInit ==
  /\ lock = NoThread
  /\ thr = [t \in Threads |-> ThreadIdle]

Init == AllocInit /\ MapIdle /\ LockInit

AllocNext ==
  \/ Alloc /\ UNCHANGED <<mapVars, lockVars>>
  \/ Free /\ UNCHANGED <<mapVars, lockVars>>
  \/ FreeStale /\ UNCHANGED <<mapVars, lockVars>>

\* the allocator under arbitrary alloc/free calls
SpecAlloc == Init /\ [][AllocNext]_vars

MapNext ==
  \/ Open /\ UNCHANGED <<allocVars, lockVars>>
  \/ OpenKmalloc /\ UNCHANGED <<allocVars, lockVars>>
  \/ OpenGetTaskMm /\ UNCHANGED <<allocVars, lockVars>>
  \/ OpenDownRead /\ UNCHANGED <<allocVars, lockVars>>
  \/ OpenGetUserPages /\ UNCHANGED <<allocVars, lockVars>>
  \/ OpenUpRead /\ UNCHANGED <<allocVars, lockVars>>
  \/ OpenMmput /\ UNCHANGED <<allocVars, lockVars>>
  \/ OpenHave /\ UNCHANGED <<allocVars, lockVars>>
  \/ OpenShort /\ UNCHANGED <<allocVars, lockVars>>
  \/ WriteCall /\ UNCHANGED <<allocVars, lockVars>>
  \/ WriteIter /\ UNCHANGED <<allocVars, lockVars>>
  \/ WriteReturn /\ UNCHANGED <<allocVars, lockVars>>
  \/ Close /\ UNCHANGED <<allocVars, lockVars>>
  \/ CloseFailed /\ UNCHANGED <<allocVars, lockVars>>

\* one transfer into the receiver's memory
SpecMap == Init /\ [][MapNext]_vars

\* senders and the receiver on one buffer, every call under the mutex
SpecLocked == Init /\ [][LockedNext]_vars

\* one transfer whose write call, once entered, keeps running: the call
\* executes in the sender's thread, which is not stopped inside the loop
SpecMapFair ==
  /\ SpecMap
  /\ WF_vars(WriteIter /\ UNCHANGED <<allocVars, lockVars>>)
  /\ WF_vars(WriteReturn /\ UNCHANGED <<allocVars, lockVars>>)

(* ------------------------------------------------------------------ *)
(* Claims about the slot allocator                                      *)
(* ------------------------------------------------------------------ *)
\* the byte ranges [off, off+len) of two slots have no byte in common
Disjoint(a, b) ==
  \/ a.len = 0
  \/ b.len = 0
  \/ a.off + a.len <= b.off
  \/ b.off + b.len <= a.off

\* C1: after any sequence of kdbus_buffer_alloc / kdbus_buffer_free calls
\* in which free was never called with users = 0, buf->pos is never
\* greater than buf->size.
C1_CursorWithinSize == ~bug => buf.pos <= buf.size

\* C1 witness: slots were allocated up to the very end of the buffer and
\* one of them was released, others still being outstanding.
C1_Witness ==
  /\ ~bug
  /\ last.op = "free" /\ last.arg # NULL
  /\ buf.users > 0
  /\ buf.pos = buf.size

\* C2 (as stated): while every release named an outstanding slot, any two
\* outstanding slots occupy disjoint byte ranges [off, off+len).
C2_Stated ==
  ~misuse =>
    \A i, j \in 1 .. Len(slots) : i < j => Disjoint(slots[i], slots[j])

\* C8 (as stated): an allocate call whose length does not fit (aligned
\* cursor + length > size) returns NULL and leaves cursor and count as they
\* were.
C8_Stated ==
  [][(last'.op = "alloc" /\ KDBUS_ALIGN8(buf.pos) + last'.arg > buf.size)
       => (last'.ret = NULL /\ buf' = buf)]_vars

\* C9 (as stated): the cursor is lowered only by a release that brings the
\* count from 1 to 0, and every such release leaves the cursor at 0.
C9_Stated ==
  [][/\ buf'.pos < buf.pos =>
          (last'.op = "free" /\ buf.users = 1 /\ buf'.users = 0
             /\ buf'.pos = 0)
     /\ (last'.op = "free" /\ buf.users = 1 /\ buf'.users = 0) =>
          buf'.pos = 0]_vars

\* C10: the count is never below zero; a release of a non-null pointer at
\* count 0 fires BUG_ON and changes neither count nor cursor, and nothing
\* runs after it.
C10_FatalUnderflow ==
  /\ [](buf.users >= 0)
  /\ [][/\ (last'.op = "free" /\ last'.arg # NULL /\ buf.users = 0) =>
             (bug' /\ buf' = buf)
        /\ ~bug]_vars

\* C10 witness: a non-null pointer was released at count 0 and BUG_ON
\* fired.
C10_Witness ==
  bug /\ last.op = "free" /\ last.arg # NULL /\ buf.users = 0

(* ------------------------------------------------------------------ *)
(* Claims about the page-range pin and the windowed copy                *)
(* ------------------------------------------------------------------ *)
\* address of byte l (from 0) of the pinned pages
DstAddr(l) == map.pages[(l \div PAGE_SIZE) + 1] * PAGE_SIZE + (l % PAGE_SIZE)

\* bytes the first i copies of the running write call were asked to copy
RECURSIVE SumBytes(_)
SumBytes(i) == IF i = 0 THEN 0 ELSE SumBytes(i - 1) + chunks[i].bytes

\* bytes the copies of the running write call did copy
RECURSIVE SumCopied(_)
SumCopied(i) == IF i = 0 THEN 0 ELSE SumCopied(i - 1) + chunks[i].copied

\* C3 (as stated): after a write of `total` bytes that returned 0, the
\* bytes of the destination, in order, are the bytes source[0 .. total) of
\* the call, also when the write spanned more than one page.
C3_Stated ==
  (pc = "opened" /\ wr.total > 0) =>
    \A j \in 0 .. wr.total - 1 :
      mem[DstAddr(wr.start + j)] = SenderByte(wr.from + j)

\* C4: a write that returned 0 and whose destination crosses k page
\* boundaries made exactly k+1 copies; copy i took
\* min(PAGE_SIZE - position in the page, bytes remaining) bytes, at least
\* one and at most a page; 5000 bytes to the start of a page of 4096 bytes
\* are copied as 4096 and 904 bytes.
C4_ChunksPerPage ==
  /\ (pc = "opened" /\ wr.total > 0) =>
       LET k == ((wr.start + wr.total - 1) \div PAGE_SIZE)
                  - (wr.start \div PAGE_SIZE)
       IN /\ Len(chunks) = k + 1
          /\ \A i \in 1 .. Len(chunks) :
               LET done == SumBytes(i - 1) IN
                 /\ chunks[i].bytes =
                      Min(PAGE_SIZE - ((wr.start + done) % PAGE_SIZE),
                          wr.total - done)
                 /\ chunks[i].bytes >= 1
                 /\ chunks[i].bytes <= PAGE_SIZE
          /\ [i \in 1 .. Len(chunks) |-> chunks[i].bytes]
               = ChunkSizes(PAGE_SIZE, wr.start % PAGE_SIZE, wr.total)
  /\ ChunkSizes(4096, 0, 5000) = <<4096, 904>>

\* C4 witness: a write that crossed two page boundaries returned 0.
C4_Witness ==
  /\ pc = "opened" /\ wr.total > 0
  /\ Len(chunks) = 3
  /\ chunks[1].bytes < PAGE_SIZE

\* C5 (as stated): when the copy faults at byte f of the transfer, the
\* write returns -EFAULT, the first f bytes of the destination are the
\* first f bytes of the source and no later byte of the destination was
\* written.
C5_Stated ==
  pc = "faulted" =>
    LET f == SumCopied(Len(chunks)) IN
      /\ wr.ret = -EFAULT
      /\ \A j \in 0 .. f - 1 :
           mem[DstAddr(wr.start + j)] = SenderByte(wr.from + j)
      /\ \A j \in f .. wr.total - 1 :
           mem[DstAddr(wr.start + j)] = Unwritten

\* C6: after an open that failed with the page list allocated (no memory
\* space, error from get_user_pages, short pin) no page is pinned on
\* behalf of that open.
C6_FailedOpenUnpins ==
  (pc = "failed" /\ res.list # "none") =>
    /\ \A p \in Pages : res.pins[p] = 0
    /\ res.list = "freed"

\* C6 witness: get_user_pages pinned fewer pages than asked for, the open
\* failed with -EFAULT and put the pages it had pinned.
C6_Witness ==
  /\ pc = "failed" /\ openret = -EFAULT
  /\ \E p \in Pages : res.gets[p] = 1 /\ res.puts[p] = 1

\* every page was put as often as pinned and the list freed once
Balanced ==
  /\ \A p \in Pages : res.puts[p] = res.gets[p]
  /\ res.kfrees = 1

\* no page was put more often than pinned, the list freed at most once
NotTwice ==
  /\ \A p \in Pages : res.puts[p] <= res.gets[p]
  /\ res.kfrees <= 1

\* C7 (as stated): the caller closing once after every open that got past
\* the allocation of the list, successful or failed, each pinned page is
\* put exactly once and the list freed exactly once.
C7_Stated ==
  /\ NotTwice
  /\ (pc = "closed" /\ res.list # "none") => Balanced

\* C7 (amended): a failed open that got past the allocation of the list
\* has closed the map itself, the caller closes once after a successful
\* open only; then each pinned page is put exactly once and the list is
\* freed exactly once.
C7_OneClosePerOpen ==
  ~reclosed =>
    /\ NotTwice
    /\ (pc = "closed" \/ (pc = "failed" /\ res.list # "none")) => Balanced

\* C7 witness: a transfer over two pages or more was opened, written and
\* closed by the caller.
C7_Witness ==
  /\ pc = "closed" /\ ~reclosed
  /\ written > 0
  /\ map.n >= 2
  /\ \A i \in 1 .. map.n : res.puts[map.pages[i]] = 1

(* ------------------------------------------------------------------ *)
(* Further claims about the slot allocator                              *)
(* ------------------------------------------------------------------ *)
\* C11 (as stated): buf->pos is a multiple of 8 in every reachable state.
C11_Stated == buf.pos % 8 = 0

\* C11 (amended): every offset a successful allocate returns is a multiple
\* of 8; the cursor itself is left at offset + length and is rounded up
\* only by the next allocate.
C11_SlotsAligned ==
  /\ \A i \in 1 .. Len(slots) : slots[i].off % 8 = 0
  /\ (last.op = "alloc" /\ last.ret # NULL) => (last.ret - buf.buf) % 8 = 0

\* C11 witness: a slot was handed out while the cursor stood at an offset
\* that is no multiple of 8, and its length leaves the cursor unaligned
\* again.
C11_Witness ==
  /\ ~misuse
  /\ Len(slots) = 2
  /\ slots[1].len % 8 # 0
  /\ slots[2].off = 8
  /\ buf.pos % 8 # 0

\* C12 (as stated): a successful allocate returns the cursor rounded up to
\* the next multiple of 8, leaves the cursor at that offset + length and
\* adds exactly 1 to the count.
C12_Stated ==
  [][(last'.op = "alloc" /\ last'.ret # NULL) =>
       LET off == ((buf.pos + 7) \div 8) * 8 IN
         /\ last'.ret = buf.buf + off
         /\ buf'.pos = off + last'.arg
         /\ buf'.users = buf.users + 1]_vars

\* C15 (as stated): while the count stays above zero the cursor never
\* decreases, and a release that leaves the count above zero leaves the
\* cursor unchanged.
C15_Stated ==
  [][/\ (buf.users > 0 /\ buf'.users > 0) => buf'.pos >= buf.pos
     /\ (last'.op = "free" /\ buf'.users > 0) => buf'.pos = buf.pos]_vars

\* C16 (as stated): the slot a successful allocate returns lies inside the
\* buffer: offset + length, as integers, is at most buf->size.
C16_Stated ==
  (last.op = "alloc" /\ last.ret # NULL) =>
    (last.ret - buf.buf) + last.arg <= buf.size

\* C18: while every release named an outstanding slot, buf->users is the
\* number of slots allocated and not yet released; an allocate that
\* returns NULL and a release of the null pointer leave it unchanged.
C18_UsersCountSlots ==
  /\ [](~misuse => buf.users = Len(slots))
  /\ [][/\ (last'.op = "alloc" /\ last'.ret = NULL) =>
             buf'.users = buf.users
        /\ (last'.op = "free" /\ last'.arg = NULL) =>
             buf'.users = buf.users]_vars

\* C18 witness: two slots are outstanding, one was released before, and
\* the last call was an allocate that returned NULL.
C18_Witness ==
  /\ ~misuse
  /\ last.op = "alloc" /\ last.ret = NULL
  /\ buf.users = 2 /\ Len(slots) = 2
  /\ slots[1].off > 0

(* ------------------------------------------------------------------ *)
(* Further claims about the page-range pin and the windowed copy        *)
(* ------------------------------------------------------------------ *)
\* the pages that hold a byte of [to, to + len)
SpannedPages(to, len) ==
  {p \in Pages : \E a \in to .. to + len - 1 : a \div PAGE_SIZE = p}

\* the pages get_user_pages pinned during the open
PinnedPages == {p \in Pages : res.gets[p] > 0}

\* C13: the open returns 0 only if exactly the n pages that hold a byte of
\* [to, to + len) were pinned; then map->n is n and map->pos is the
\* address modulo the page size; when fewer than n pages were pinned the
\* open fails with -EFAULT and keeps no pin.
C13_AllOrNothing ==
  LET span == SpannedPages(xfer.to, xfer.len) IN
    /\ (pc \notin OpenSteps \cup {"idle"} /\ openret = 0) =>
         /\ PinnedPages = span
         /\ \A p \in span : res.gets[p] = 1
         /\ map.n = Cardinality(span)
         /\ Len(map.pages) = map.n
    /\ (pc = "opened" /\ wr.total = 0) =>
         /\ map.pos = xfer.to % PAGE_SIZE
         /\ map.cur = 0
         /\ \A p \in Pages : res.pins[p] = IF p \in span THEN 1 ELSE 0
    /\ (pc = "failed" /\ PinnedPages # {}) =>
         /\ Cardinality(PinnedPages) < Cardinality(span)
         /\ openret = -EFAULT
         /\ \A p \in Pages : res.pins[p] = 0

\* C13 witness: a range that starts inside a page and spans three pages
\* was opened and nothing written yet.
C13_Witness ==
  /\ pc = "opened" /\ wr.total = 0
  /\ openret = 0
  /\ map.n = 3
  /\ map.pos > 0

\* C14: the pass of the loop in which the copy faults changes neither the
\* map (page list, page count, page index, position in the page) nor the
\* pins; after the failed write all n pages are pinned, the list is live
\* and the write cursor is where the faulting chunk started.
C14_FaultKeepsPin ==
  /\ [][(wr.ret = 0 /\ wr'.ret < 0) => (map' = map /\ res' = res)]_vars
  /\ [](pc = "faulted" =>
          /\ wr.ret = -EFAULT
          /\ res.list = "live"
          /\ Len(map.pages) = map.n
          /\ \A i \in 1 .. map.n : res.pins[map.pages[i]] = 1
          /\ map.cur = chunks[Len(chunks)].cur
          /\ map.pos = chunks[Len(chunks)].pos)

\* C14 witness: the second chunk of a write faulted after copying some
\* bytes.
C14_Witness ==
  /\ pc = "faulted"
  /\ Len(chunks) = 2
  /\ chunks[2].copied > 0

\* bytes of the range written so far, those of the running call included
BytesDone == written + (IF pc = "loop" THEN wr.total - wr.len ELSE 0)

\* C19: after a successful open, with writes of at most len bytes in
\* total, the position in the page stays below the page size between
\* chunks, every chunk maps a page index below map->n, and the page index
\* is map->n only when the last byte of a range that ends on a page
\* boundary has been written.
C19_CursorInsidePins ==
  pc \in {"opened", "loop", "faulted"} =>
    /\ map.pos < PAGE_SIZE
    /\ map.cur <= map.n
    /\ \A i \in 1 .. Len(chunks) :
         chunks[i].cur < map.n /\ chunks[i].pos < PAGE_SIZE
    /\ map.cur = map.n =>
         /\ BytesDone = xfer.len
         /\ (xfer.to + xfer.len) % PAGE_SIZE = 0

\* C19 witness: two writes filled a range of two pages or more that ends
\* on a page boundary; the page index stands at map->n.
C19_Witness ==
  /\ pc = "opened"
  /\ map.n >= 2
  /\ map.cur = map.n
  /\ written = xfer.len
  /\ wr.total < xfer.len

\* pages the destination of the running write call spans
WritePages ==
  ((wr.start + wr.total - 1) \div PAGE_SIZE) - (wr.start \div PAGE_SIZE) + 1

\* C20: every pass of the loop either ends it with a fault or copies at
\* least one byte and lowers the remaining length; the call makes at most
\* as many passes as its destination spans pages, and it returns, with 0
\* and nothing remaining or with -EFAULT.
C20_WriteTerminates ==
  /\ [][(pc = "loop" /\ pc' = "loop") =>
          \/ wr'.ret = -EFAULT
          \/ wr'.ret = 0 /\ wr'.len <= wr.len - 1 /\ wr'.len >= 0]_vars
  /\ [](pc = "loop" => Len(chunks) <= WritePages)
  /\ []((pc \in {"opened", "faulted"} /\ wr.total > 0) =>
          \/ wr.ret = 0 /\ wr.len = 0
          \/ wr.ret = -EFAULT)
  /\ (pc = "loop") ~> (pc \in {"opened", "faulted"})

\* C20 witness: a write of the longest transfer over three pages returned 0
\* after three passes.
C20_Witness ==
  /\ pc = "opened"
  /\ wr.total = xfer.len /\ wr.ret = 0 /\ wr.len = 0
  /\ Len(chunks) = 3 /\ WritePages = 3

(* ------------------------------------------------------------------ *)
(* Claim about concurrent callers                                       *)
(* ------------------------------------------------------------------ *)
\* C17 (as stated): with every allocate and release run under the one
\* mutex, in every interleaving and whenever no call is in flight, no two
\* outstanding slots overlap, the cursor is at most the size and the count
\* is the number of outstanding slots.
C17_Stated ==
  lock = NoThread =>
    /\ \A i, j \in 1 .. Len(slots) : i < j => Disjoint(slots[i], slots[j])
    /\ buf.pos <= buf.size
    /\ buf.users = Len(slots)

====
